---- MODULE Spec2Model ----
(***************************************************************************)
(* Model of the if-reliability failover tool (the nmcli / replaceRoute     *)
(* program): pingIP, pingInterface, connectToWiFi, replaceRoute and        *)
(* rootCmd.Run, with the operating system (ping, nmcli, ip route, SIGINT)  *)
(* as the nondeterministic environment.                                    *)
(*                                                                         *)
(* Text is modelled as a sequence of atoms: a command output is a sequence *)
(* of words and " " separators, a dotted address literal is the sequence   *)
(* of its fields (a field that is no decimal number is NotNum).            *)
(***************************************************************************)
EXTENDS Integers, Sequences, FiniteSets, TLC

VARIABLES
    pc,         \* control point of the main goroutine
    retTo,      \* where the running pingInterface / replaceRoute returns to
    endPoint,   \* --endpoint flag
    retryFlag,  \* --retry flag as given on the command line
    retry,      \* pingInterface: parameter retry
    failures,   \* pingInterface: local failures
    chans,      \* one entry per listener goroutine: state of its signalChannel
    router,     \* Run: router returned by connectToWiFi
    err,        \* Run: err returned by connectToWiFi
    args,       \* replaceRoute: parameters ipv4, cidrMask, ifname, router
    routeErr,   \* error returned by the last replaceRoute call
    exitCode,   \* process exit status, Running while the process is alive
    downs,      \* history: number of times pingInterface has returned -1
    probes,     \* history: reachability of each probe of the running pingInterface
    polls,      \* history: one record per polling iteration of connectToWiFi
    ops,        \* history: OS commands issued (nmcli, ip route show, ip route replace)
    logs        \* history: the log messages of Run and of the listener

vars == <<pc, retTo, endPoint, retryFlag, retry, failures, chans, router, err,
          args, routeErr, exitCode, downs, probes, polls, ops, logs>>

----------------------------------------------------------------------------
(* Bounds of the exploration *)

MaxProbes == 6        \* probes explored per pingInterface invocation
MaxPolls == 3         \* polling iterations explored per connectToWiFi
MaxThreshold == 5     \* thresholds 1..MaxThreshold given to pingInterface alone
PrefixSlack == 2      \* prefix lengths explored beyond 0..IPv4Bits on each side

(* Program constants *)

DefaultRetry == 5     \* default of the --retry flag
RunRetry == 5         \* the literal Run passes to pingInterface
RunCidrMask == 24     \* the literal Run passes to replaceRoute
IPv4Bits == 32        \* bits argument of net.CIDRMask
ExitInterrupt == 0    \* os.Exit(0) of the listener goroutine
ExitConnectErr == 1   \* os.Exit(1) of Run

Running == 0 - 1      \* the process has not exited
ExitOK == 0           \* main returned
ExitPanic == 2        \* Go runtime: unrecovered panic
ExitSignal == 130     \* killed by SIGINT with no handler registered

NotNum == 0 - 1       \* a field of an address literal that is no decimal number
NoReply == 0 - 1      \* pingIP's failure value

wifiIF == "wlan0"

----------------------------------------------------------------------------
(* pingIP: one ping command and the parse of its output.                    *)
(* A ping result is [cmdErr, received, time]: the command failed; the       *)
(* output holds the "1 received" token; the value of the time= token        *)
(* (NotNum when the token is absent or no number).                          *)

PingResults ==
    { [cmdErr |-> TRUE,  received |-> FALSE, time |-> NotNum],
      [cmdErr |-> FALSE, received |-> FALSE, time |-> NotNum],
      [cmdErr |-> FALSE, received |-> TRUE,  time |-> NotNum],
      [cmdErr |-> FALSE, received |-> TRUE,  time |-> 0],
      [cmdErr |-> FALSE, received |-> TRUE,  time |-> 12] }

pingIP(res) ==
    IF res.cmdErr THEN NoReply
    ELSE IF ~res.received THEN NoReply
    ELSE IF res.time = NotNum THEN NoReply
    ELSE res.time

(* Hosts that can answer a ping; a ping of anything else fails. *)
Gateways == {"192.168.1.1", "10.0.0.1"}

PingOf(target, res) ==
    IF target \in Gateways THEN pingIP(res) ELSE NoReply

(* A ping of the endpoint: a dotted literal with a field out of range, or  *)
(* with too few fields, names no host and the ping command fails.          *)
IsHostname(e) == \A i \in 1..Len(e) : e[i] = NotNum

IsIPv4(e) == Len(e) = 4 /\ \A i \in 1..4 : e[i] \in 0..255

PingEndpoint(e, res) ==
    IF IsIPv4(e) \/ IsHostname(e) THEN pingIP(res) ELSE NoReply

----------------------------------------------------------------------------
(* pingInterface: one iteration of the loop, on the value pingIP returned.  *)

(* Variants of the loop body with a seeded fault *)
PingStepNoReset(f, r, responseTime) ==
    IF responseTime # NoReply
    THEN [failures |-> f, down |-> FALSE]
    ELSE [failures |-> f + 1, down |-> (f + 1 >= r)]

PingStepOffByOne(f, r, responseTime) ==
    IF responseTime # NoReply
    THEN [failures |-> 0, down |-> FALSE]
    ELSE [failures |-> f + 1, down |-> (f + 1 >= r - 1)]

PingStepStrict(f, r, responseTime) ==
    IF responseTime # NoReply
    THEN [failures |-> 0, down |-> FALSE]
    ELSE [failures |-> f + 1, down |-> (f + 1 > r)]

PingStep(f, r, responseTime) ==
    IF responseTime # NoReply
    THEN [failures |-> 0, down |-> FALSE]
    ELSE [failures |-> f + 1, down |-> (f + 1 >= r)]

----------------------------------------------------------------------------
(* strings.Split(s, " "): the pieces of s between the " " atoms.            *)

RECURSIVE SplitFrom(_, _, _)
SplitFrom(s, i, cur) ==
    IF i > Len(s) THEN <<cur>>
    ELSE IF s[i] = " " THEN <<cur>> \o SplitFrom(s, i + 1, <<>>)
    ELSE SplitFrom(s, i + 1, Append(cur, s[i]))

Split(s) == SplitFrom(s, 1, <<>>)

(* A piece is a sequence of word atoms; its text is "" when it is empty. *)
Text(piece) == IF piece = <<>> THEN "" ELSE piece[1]

(* Outputs of "ip route show default dev <if>" *)
RouteOutputs ==
    { <<>>,
      <<"default", " ", "via">>,
      <<"default", " ", "dev", " ", "wlan0", " ", "scope", " ", "link">>,
      <<"default", " ", " ", "via", " ", "192.168.1.1">>,
      <<"default", " ", "via", " ", "192.168.1.1", " ", "dev", " ", "wlan0">>,
      <<"default", " ", "via", " ", "10.0.0.1", " ", "dev", " ", "wlan0">>,
      <<"default", " ", "via", " ", "172.16.0.9", " ", "dev", " ", "wlan0">> }

----------------------------------------------------------------------------
(* net.ParseIP, net.CIDRMask and IP.Mask on IPv4 dotted literals.           *)

Endpoints ==
    { <<8, 8, 8, 8>>, <<192, 168, 1, 77>>, <<170, 85, 204, 51>>,
      <<255, 255, 255, 255>>, <<999, 999, 999, 999>>, <<10, 1, 2>>,
      <<NotNum, NotNum>> }

RunEndpoints == { <<8, 8, 8, 8>>, <<999, 999, 999, 999>>, <<NotNum, NotNum>> }

Nil == <<>>

ParseIP(s) == IF IsIPv4(s) THEN s ELSE Nil

RECURSIVE Pow2(_)
Pow2(n) == IF n = 0 THEN 1 ELSE 2 * Pow2(n - 1)

RECURSIVE BitAnd(_, _, _)
BitAnd(a, b, bits) ==
    IF bits = 0 THEN 0
    ELSE 2 * BitAnd(a \div 2, b \div 2, bits - 1) + ((a % 2) * (b % 2))

(* m[i] = 0xff while n >= 8, then ^byte(0xff >> n), then ^byte(0xff) = 0 *)
MaskByte(n) == IF n >= 8 THEN 255 ELSE 255 - (255 \div Pow2(n))

CIDRMaskShiftOnly(ones, bits) ==
    IF ones < 0 \/ ones > bits THEN Nil
    ELSE [i \in 1..(bits \div 8) |->
            LET n == IF ones > 8 * (i - 1) THEN ones - 8 * (i - 1) ELSE 0
            IN  IF n >= 8 THEN 255 ELSE 255 \div Pow2(n)]

CIDRMask(ones, bits) ==
    IF ones < 0 \/ ones > bits THEN Nil
    ELSE [i \in 1..(bits \div 8) |->
            MaskByte(IF ones > 8 * (i - 1) THEN ones - 8 * (i - 1) ELSE 0)]

Mask(ip, mask) ==
    IF Len(ip) # Len(mask) THEN Nil
    ELSE [i \in 1..Len(ip) |-> BitAnd(ip[i], mask[i], 8)]

(* fmt.Sprintf("%s/%d", network, cidrMask): a nil network prints as <nil> *)
Cidr(network, cidrMask) == [net |-> network, len |-> cidrMask]

NoCidr == [net |-> Nil, len |-> NotNum]

Op(cmd, cidr, via, dev) == [cmd |-> cmd, cidr |-> cidr, via |-> via, dev |-> dev]

(* replaceRoute on its arguments and on whether the OS accepts the command: *)
(* the commands it issues and the error it returns.                         *)
replaceRouteNoCheck(ipv4, cidrMask, ifname, rt, osOk) ==
    LET ip == ParseIP(ipv4)
        network == Mask(ip, CIDRMask(cidrMask, IPv4Bits))
        cidr == Cidr(network, cidrMask)
    IN  [ issued |-> <<Op("ip route replace", cidr, rt, ifname)>>,
          err |-> IF osOk THEN "nil" ELSE "failed to replace route" ]

replaceRoute(ipv4, cidrMask, ifname, rt, osOk) ==
    LET ip == ParseIP(ipv4)
        network == Mask(ip, CIDRMask(cidrMask, IPv4Bits))
        cidr == Cidr(network, cidrMask)
    IN  IF ip = Nil
        THEN [ issued |-> <<>>, err |-> "invalid IP address" ]
        ELSE [ issued |-> <<Op("ip route replace", cidr, rt, ifname)>>,
               err |-> IF osOk THEN "nil" ELSE "failed to replace route" ]

----------------------------------------------------------------------------
(* Configurations and environment answers *)

RetryFlags == {1, 3, DefaultRetry}

NoArgs == [ipv4 |-> Nil, cidrMask |-> 0, ifname |-> "", router |-> ""]

NoPoll == [queryErr |-> FALSE, out |-> <<>>, route |-> "", reachable |-> FALSE]

QueryResults ==
    { [err |-> TRUE, out |-> <<>>] }
        \cup { [err |-> FALSE, out |-> o] : o \in RouteOutputs }

(* The OS accepts a route replace only for a well-formed destination. *)
OsAnswers(a) ==
    IF Mask(ParseIP(a.ipv4), CIDRMask(a.cidrMask, IPv4Bits)) = Nil
    THEN {FALSE} ELSE BOOLEAN

StartAt(p, e, r) ==
    /\ pc = p
    /\ retTo = "none"
    /\ endPoint = e
    /\ retryFlag = r
    /\ retry = 0
    /\ failures = 0
    /\ chans = <<>>
    /\ router = ""
    /\ err = "nil"
    /\ args = NoArgs
    /\ routeErr = "nil"
    /\ exitCode = Running
    /\ downs = 0
    /\ probes = <<>>
    /\ polls = <<>>
    /\ ops = <<>>
    /\ logs = {}

Init == \E e \in RunEndpoints, r \in RetryFlags : StartAt("Run", e, r)

----------------------------------------------------------------------------
(* pingInterface *)

EnterPingKeepFailures(r, ret) ==
    /\ retry' = r
    /\ failures' = failures
    /\ chans' = Append(chans, "waiting")
    /\ probes' = <<>>
    /\ retTo' = ret
    /\ pc' = "pingInterface"

(* Entry of pingInterface: failures := 0, signal.Notify on a fresh channel *)
(* of capacity 1, and the goroutine that waits on it.                      *)
EnterPing(r, ret) ==
    /\ retry' = r
    /\ failures' = 0
    /\ chans' = Append(chans, "waiting")
    /\ probes' = <<>>
    /\ retTo' = ret
    /\ pc' = "pingInterface"

(* One iteration of the loop: sleep, pingIP(endpoint), count, maybe return -1 *)
PingProbe ==
    /\ pc = "pingInterface"
    /\ Len(probes) < MaxProbes
    /\ \E res \in PingResults :
          LET rt == PingEndpoint(endPoint, res)
              st == PingStep(failures, retry, rt)
          IN  /\ failures' = st.failures
              /\ probes' = Append(probes, rt # NoReply)
              /\ pc' = IF st.down THEN retTo ELSE pc
              /\ downs' = IF st.down THEN downs + 1 ELSE downs
    /\ UNCHANGED <<retTo, endPoint, retryFlag, retry, chans, router, err, args,
                   routeErr, exitCode, polls, ops, logs>>

(* SIGINT: with no channel registered the process is killed; otherwise the *)
(* signal is put on every registered channel (dropped where one is full).  *)
Interrupt ==
    /\ exitCode = Running
    /\ IF chans = <<>>
       THEN /\ exitCode' = ExitSignal
            /\ pc' = "exited"
            /\ UNCHANGED chans
       ELSE /\ chans' = [i \in 1..Len(chans) |-> "signalled"]
            /\ UNCHANGED <<exitCode, pc>>
    /\ UNCHANGED <<retTo, endPoint, retryFlag, retry, failures, router, err, args,
                   routeErr, probes, polls, ops, logs, downs>>

(* A listener goroutine receives from its channel and calls os.Exit(0) *)
ListenerExit ==
    /\ exitCode = Running
    /\ \E i \in 1..Len(chans) : chans[i] = "signalled"
    /\ logs' = logs \cup {"Stopping ping due to user interrupt"}
    /\ exitCode' = ExitInterrupt
    /\ pc' = "exited"
    /\ UNCHANGED <<retTo, endPoint, retryFlag, retry, failures, chans, router, err,
                   args, routeErr, probes, polls, ops, downs>>

----------------------------------------------------------------------------
(* connectToWiFi *)

ConnectJoinRetryOnce ==
    /\ pc = "connectToWiFi"
    /\ ops' = Append(ops, Op("nmcli", NoCidr, "", wifiIF))
    /\ \E ok \in BOOLEAN :
          IF ok
          THEN /\ pc' = "poll"
               /\ UNCHANGED <<router, err>>
          ELSE IF ops = <<>>
          THEN UNCHANGED <<router, err, pc>>
          ELSE /\ router' = ""
               /\ err' = "exit status 1"
               /\ pc' = "Run178"
    /\ UNCHANGED <<retTo, endPoint, retryFlag, retry, failures, chans, args,
                   routeErr, exitCode, probes, polls, logs, downs>>

(* nmcli d wifi connect: a failure returns ("", err) *)
ConnectJoin ==
    /\ pc = "connectToWiFi"
    /\ ops' = Append(ops, Op("nmcli", NoCidr, "", wifiIF))
    /\ \E ok \in BOOLEAN :
          IF ok
          THEN /\ pc' = "poll"
               /\ UNCHANGED <<router, err>>
          ELSE /\ router' = ""
               /\ err' = "exit status 1"
               /\ pc' = "Run178"
    /\ UNCHANGED <<retTo, endPoint, retryFlag, retry, failures, chans, args,
                   routeErr, exitCode, probes, polls, logs, downs>>

(* One iteration of the polling loop: sleep, ip route show, Split(..)[2],  *)
(* pingIP(route).                                                          *)
ConnectPoll ==
    /\ pc = "poll"
    /\ Len(polls) < MaxPolls
    /\ ops' = Append(ops, Op("ip route show", NoCidr, "", wifiIF))
    /\ \E q \in QueryResults, res \in PingResults :
          LET pieces == Split(q.out)
              route == Text(pieces[3])
              up == PingOf(route, res) # NoReply
          IN  IF q.err
              THEN /\ polls' = Append(polls, [NoPoll EXCEPT !.queryErr = TRUE])
                   /\ router' = ""
                   /\ err' = "nil"
                   /\ pc' = "Run178"
                   /\ UNCHANGED exitCode
              ELSE IF Len(pieces) < 3
              THEN /\ polls' = Append(polls, [NoPoll EXCEPT !.out = q.out])
                   /\ exitCode' = ExitPanic
                   /\ pc' = "exited"
                   /\ UNCHANGED <<router, err>>
              ELSE /\ polls' = Append(polls, [queryErr |-> FALSE, out |-> q.out,
                                              route |-> route, reachable |-> up])
                   /\ IF up
                      THEN /\ router' = route
                           /\ err' = "nil"
                           /\ pc' = "Run178"
                      ELSE UNCHANGED <<router, err, pc>>
                   /\ UNCHANGED exitCode
    /\ UNCHANGED <<retTo, endPoint, retryFlag, retry, failures, chans, args,
                   routeErr, probes, logs, downs>>

----------------------------------------------------------------------------
(* replaceRoute *)

ReplaceRoute ==
    /\ pc = "replaceRoute"
    /\ \E osOk \in OsAnswers(args) :
          LET r == replaceRoute(args.ipv4, args.cidrMask, args.ifname, args.router, osOk)
          IN  /\ ops' = ops \o r.issued
              /\ routeErr' = r.err
    /\ pc' = retTo
    /\ UNCHANGED <<retTo, endPoint, retryFlag, retry, failures, chans, router, err,
                   args, exitCode, probes, polls, logs, downs>>

----------------------------------------------------------------------------
(* rootCmd.Run *)

(* Flags are read and logged, then pingInterface(endPoint, 5) *)
RunStart ==
    /\ pc = "Run"
    /\ logs' = logs \cup {"Starting Interface Reliability tool"}
    /\ EnterPing(RunRetry, "Run176")
    /\ UNCHANGED <<endPoint, retryFlag, router, err, args, routeErr, exitCode,
                   polls, ops, downs>>

Run176 ==
    /\ pc = "Run176"
    /\ logs' = logs \cup {"Ping toward endpoint failed"}
    /\ pc' = "connectToWiFi"
    /\ UNCHANGED <<retTo, endPoint, retryFlag, retry, failures, chans, router, err,
                   args, routeErr, exitCode, probes, polls, ops, downs>>

Run178SkipRoute ==
    /\ pc = "Run178"
    /\ IF err # "nil"
       THEN /\ logs' = logs \cup {"Error connecting to WiFi"}
            /\ exitCode' = ExitConnectErr
            /\ pc' = "exited"
            /\ UNCHANGED <<args, retTo, retry, failures, chans, probes>>
       ELSE /\ logs' = logs \cup {"Successfully connected to WiFi"}
            /\ args' = [ipv4 |-> endPoint, cidrMask |-> RunCidrMask,
                        ifname |-> wifiIF, router |-> router]
            /\ EnterPing(RunRetry, "Run186")
            /\ UNCHANGED exitCode
    /\ UNCHANGED <<endPoint, retryFlag, router, err, routeErr, polls, ops, downs>>

Run178IgnoreErr ==
    /\ pc = "Run178"
    /\ logs' = logs \cup {"Successfully connected to WiFi"}
    /\ args' = [ipv4 |-> endPoint, cidrMask |-> RunCidrMask,
                ifname |-> wifiIF, router |-> router]
    /\ retTo' = "Run184"
    /\ pc' = "replaceRoute"
    /\ UNCHANGED <<endPoint, retryFlag, retry, failures, chans, router, err,
                   routeErr, exitCode, probes, polls, ops, downs>>

(* if err != nil { os.Exit(1) }; otherwise replaceRoute(endPoint, 24, wifiIF, router) *)
Run178 ==
    /\ pc = "Run178"
    /\ IF err # "nil"
       THEN /\ logs' = logs \cup {"Error connecting to WiFi"}
            /\ exitCode' = ExitConnectErr
            /\ pc' = "exited"
            /\ UNCHANGED <<args, retTo>>
       ELSE /\ logs' = logs \cup {"Successfully connected to WiFi"}
            /\ args' = [ipv4 |-> endPoint, cidrMask |-> RunCidrMask,
                        ifname |-> wifiIF, router |-> router]
            /\ retTo' = "Run184"
            /\ pc' = "replaceRoute"
            /\ UNCHANGED exitCode
    /\ UNCHANGED <<endPoint, retryFlag, retry, failures, chans, router, err,
                   routeErr, probes, polls, ops, downs>>

(* The result of replaceRoute is discarded; pingInterface(endPoint, 5) *)
Run184 ==
    /\ pc = "Run184"
    /\ logs' = logs \cup {"Successfully changed default route"}
    /\ EnterPing(RunRetry, "Run186")
    /\ UNCHANGED <<endPoint, retryFlag, router, err, args, routeErr, exitCode,
                   polls, ops, downs>>

Run186FailBack ==
    /\ pc = "Run186"
    /\ pc' = "connectToWiFi"
    /\ UNCHANGED <<retTo, endPoint, retryFlag, retry, failures, chans, router, err,
                   args, routeErr, exitCode, probes, polls, ops, logs, downs>>

(* Run returns, Execute returns, main returns *)
Run186 ==
    /\ pc = "Run186"
    /\ exitCode' = ExitOK
    /\ pc' = "exited"
    /\ UNCHANGED <<retTo, endPoint, retryFlag, retry, failures, chans, router, err,
                   args, routeErr, probes, polls, ops, logs, downs>>

Next ==
    \/ RunStart
    \/ PingProbe
    \/ Run176
    \/ ConnectJoin
    \/ ConnectPoll
    \/ Run178
    \/ ReplaceRoute
    \/ Run184
    \/ Run186
    \/ Interrupt
    \/ ListenerExit

Spec == Init /\ [][Next]_vars

----------------------------------------------------------------------------
(* pingInterface driven alone, with every threshold 1..MaxThreshold *)

Thresholds == 1..MaxThreshold

CallPingInterface ==
    /\ pc = "caller"
    /\ \E t \in Thresholds : EnterPing(t, "returned")
    /\ UNCHANGED <<endPoint, retryFlag, router, err, args, routeErr, exitCode,
                   downs, polls, ops, logs>>

InitMonitor == \E e \in RunEndpoints : StartAt("caller", e, DefaultRetry)

NextMonitor ==
    \/ CallPingInterface
    \/ PingProbe
    \/ Interrupt
    \/ ListenerExit

SpecMonitor == InitMonitor /\ [][NextMonitor]_vars

----------------------------------------------------------------------------
(* replaceRoute driven alone, with every endpoint and prefix length *)

PrefixLens == (0 - PrefixSlack)..(IPv4Bits + PrefixSlack)

CallReplaceRoute ==
    /\ pc = "caller"
    /\ \E e \in Endpoints, m \in PrefixLens, rt \in {"", "192.168.1.1"} :
          args' = [ipv4 |-> e, cidrMask |-> m, ifname |-> wifiIF, router |-> rt]
    /\ retTo' = "returned"
    /\ pc' = "replaceRoute"
    /\ UNCHANGED <<endPoint, retryFlag, retry, failures, chans, router, err,
                   routeErr, exitCode, downs, probes, polls, ops, logs>>

InitRoute == StartAt("caller", <<8, 8, 8, 8>>, DefaultRetry)

NextRoute ==
    \/ CallReplaceRoute
    \/ ReplaceRoute

SpecRoute == InitRoute /\ [][NextRoute]_vars

----------------------------------------------------------------------------
(* Helpers of the properties *)

RECURSIVE TrailingFailures(_)
TrailingFailures(h) ==
    IF h = <<>> THEN 0
    ELSE IF h[Len(h)] THEN 0
    ELSE 1 + TrailingFailures(SubSeq(h, 1, Len(h) - 1))

(* h holds t consecutive unreachable probes somewhere *)
HasRun(h, t) ==
    \E i \in 1..Len(h) :
        /\ i + t - 1 <= Len(h)
        /\ \A j \in i..(i + t - 1) : ~h[j]

Front(h) == SubSeq(h, 1, Len(h) - 1)

Issued(cmd) == \E i \in 1..Len(ops) : ops[i].cmd = cmd

Interrupted == "Stopping ping due to user interrupt" \in logs

(* C1: for every threshold t >= 1 and every sequence of probe outcomes,    *)
(* pingInterface returns -1 exactly at the first probe that completes a    *)
(* run of t consecutive unreachable probes and never earlier; a reachable  *)
(* probe resets the count, so failures is the length of the trailing run.  *)
C1_DownAtFirstFullRun ==
    chans # <<>> =>
        /\ failures = TrailingFailures(probes)
        /\ pc = "pingInterface" => ~HasRun(probes, retry)
        /\ pc = "returned" =>
              /\ downs = 1
              /\ TrailingFailures(probes) = retry
              /\ ~HasRun(Front(probes), retry)
        /\ downs = 1 => HasRun(probes, retry)

C1_Witness ==
    /\ pc = "returned"
    /\ retry = 5
    /\ probes = <<TRUE, FALSE, FALSE, FALSE, FALSE, FALSE>>

(* route replace, second monitor: no join before the first pingInterface   *)
(* has returned -1, no route replace before connectToWiFi has returned a   *)
(* nil error, no second pingInterface before replaceRoute has been called  *)
(* and has returned.                                                       *)
Rank(cmd) ==
    IF cmd = "nmcli" THEN 1 ELSE IF cmd = "ip route show" THEN 2 ELSE 3

Attempted == Issued("ip route replace") \/ routeErr = "invalid IP address"

(* C2: the phases of Run occur in the order monitor, join, gateway polls,  *)
C2_PhaseOrder ==
    /\ \A i, j \in 1..Len(ops) : i < j => Rank(ops[i].cmd) <= Rank(ops[j].cmd)
    /\ Issued("nmcli") => downs >= 1 /\ "Ping toward endpoint failed" \in logs
    /\ Issued("ip route replace") =>
          /\ Issued("nmcli")
          /\ err = "nil"
          /\ "Successfully connected to WiFi" \in logs
    /\ args # NoArgs => "Successfully connected to WiFi" \in logs /\ polls # <<>>
    /\ Len(chans) >= 2 => Attempted /\ args # NoArgs
    /\ pc \in {"connectToWiFi", "poll", "Run178", "replaceRoute", "Run184"} =>
          downs = 1 /\ Len(chans) = 1

C2_Witness ==
    /\ Len(chans) = 2
    /\ pc = "pingInterface"
    /\ probes # <<>>
    /\ Issued("ip route replace")

(* C3: when the join command fails (connectToWiFi returns a non-nil error) *)
(* replaceRoute is never invoked, no second pingInterface is started, and  *)
(* the process exits with status 1 (unless a SIGINT listener exits first). *)
C3_JoinFailureIsFatal ==
    err # "nil" =>
        /\ pc \in {"Run178", "exited"}
        /\ args = NoArgs
        /\ ~Issued("ip route replace")
        /\ ~Issued("ip route show")
        /\ Len(chans) = 1
        /\ "Successfully connected to WiFi" \notin logs
        /\ pc = "exited" =>
              \/ exitCode = ExitConnectErr /\ "Error connecting to WiFi" \in logs
              \/ exitCode = ExitInterrupt /\ Interrupted

C3_Witness ==
    /\ err # "nil"
    /\ pc = "exited"
    /\ exitCode = ExitConnectErr

(* C4: when replaceRoute returns an error the process exits non-zero, and *)
(* the second pingInterface is started only after a successful replace.   *)
C4_RouteFailureIsFatal ==
    /\ Len(chans) >= 2 => routeErr = "nil"
    /\ (routeErr # "nil" /\ pc = "exited" /\ ~Interrupted) => exitCode # ExitOK

(* is the address the default-route query reported in the last polling     *)
(* iteration and that address answered the probe.                          *)
LastPoll == polls[Len(polls)]

(* C5: whenever connectToWiFi returns a nil error, the gateway it returns  *)
C5_NoPrematureSuccess ==
    (pc = "Run178" /\ err = "nil") =>
        /\ polls # <<>>
        /\ ~LastPoll.queryErr
        /\ LastPoll.reachable
        /\ router = LastPoll.route
        /\ router \in Gateways

(* output has fewer than three tokens, leaves connectToWiFi polling: it    *)
(* neither returns nor ends the process.                                   *)
NotYetAssociated(p) == p.queryErr \/ Len(Split(p.out)) < 3

(* C6: a polling iteration whose default-route query fails, or whose       *)
C6_PendingGatewayIsRetried ==
    (polls # <<>> /\ NotYetAssociated(LastPoll)) =>
        \/ pc = "poll" /\ exitCode = Running
        \/ pc = "exited" /\ exitCode = ExitInterrupt /\ Interrupted

(* C7: the first pingInterface returns after exactly --retry consecutive   *)
(* unreachable probes.                                                     *)
C7_ConfiguredThreshold ==
    pc = "Run176" => TrailingFailures(probes) = retryFlag

(* C8: replaceRoute called with an endpoint that is no parsable IP address *)
(* returns the validation error and issues no OS command.                  *)
C8_InvalidEndpointNoMutation ==
    [][(pc = "replaceRoute" /\ ParseIP(args.ipv4) = Nil) =>
          /\ ops' = ops
          /\ pc' # "replaceRoute" =>
                \/ pc' = retTo /\ routeErr' = "invalid IP address"
                \/ pc' = "exited" /\ exitCode' = ExitInterrupt]_vars

C8_Witness ==
    /\ pc = "returned"
    /\ args.ipv4 = <<999, 999, 999, 999>>
    /\ routeErr = "invalid IP address"
    /\ ops = <<>>

(* C9: replaceRoute called with a prefix length outside 0..32 returns an   *)
(* error without issuing any OS command.                                   *)
C9_PrefixValidated ==
    (pc = "returned" /\ args.cidrMask \notin 0..IPv4Bits) =>
        /\ ops = <<>>
        /\ routeErr # "nil"

(* destination of the issued route replace is the endpoint with its low    *)
(* 32-p bits cleared, paired with p.                                       *)
Min(a, b) == IF a < b THEN a ELSE b

(* Bits of byte i (1 the most significant) among the low n bits of the address *)
LowBitsIn(i, n) ==
    LET below == 8 * (4 - i)
    IN  IF n <= below THEN 0 ELSE Min(n - below, 8)

ClearLow(b, k) == (b \div Pow2(k)) * Pow2(k)

ExpectedCidr(ip, p) ==
    [net |-> [i \in 1..4 |-> ClearLow(ip[i], LowBitsIn(i, IPv4Bits - p))],
     len |-> p]

(* C10: for a valid IPv4 endpoint and a prefix length p in 0..32 the       *)
C10_NetworkIsMaskedEndpoint ==
    (pc = "returned" /\ IsIPv4(args.ipv4) /\ args.cidrMask \in 0..IPv4Bits) =>
        /\ Len(ops) = 1
        /\ ops[1].cmd = "ip route replace"
        /\ ops[1].cidr = ExpectedCidr(args.ipv4, args.cidrMask)

C10_Witness ==
    /\ pc = "returned"
    /\ args.ipv4 = <<8, 8, 8, 8>>
    /\ args.cidrMask = 24
    /\ Len(ops) = 1
    /\ ops[1].cidr = [net |-> <<8, 8, 8, 0>>, len |-> 24]

(* C11: once the second pingInterface has returned -1, Run issues no      *)
(* further OS command, starts no further monitor and the process ends     *)
(* with status 0.                                                         *)
C11_SecondDownEndsRun ==
    [][/\ downs' = 2 =>
             /\ pc' \in {"Run186", "exited"}
             /\ pc' = "exited" => exitCode' = ExitOK
       /\ downs = 2 =>
             /\ ops' = ops
             /\ Len(chans') = Len(chans)
             /\ downs' = downs
             /\ probes' = probes
             /\ logs' \subseteq logs \cup {"Stopping ping due to user interrupt"}]_vars

C11_Witness ==
    /\ downs = 2
    /\ pc = "exited"
    /\ exitCode = ExitOK
    /\ ~Interrupted

Signalled == \E i \in 1..Len(chans) : chans[i] = "signalled"

(* C12: once a SIGINT has been delivered while a pingInterface loop is     *)
(* running, that pingInterface never returns -1 and the main goroutine     *)
(* takes no later step of Run: the only way out of the loop is the         *)
(* listener's os.Exit(0).                                                  *)
C12_InterruptStopsMonitor ==
    [][(pc = "pingInterface" /\ Signalled) =>
          /\ downs' = downs
          /\ pc' \in {"pingInterface", "exited"}
          /\ pc' = "exited" => exitCode' = ExitInterrupt /\ Interrupted']_vars

(* C13: failures is local to one pingInterface invocation: the second     *)
(* invocation starts at 0 whatever the first one ended with, counts only  *)
(* its own probes, and returns -1 only after a full run of retry          *)
(* unreachable probes made after the route replace.                       *)
C13_CounterIsPerInvocation ==
    Len(chans) = 2 =>
        /\ failures = TrailingFailures(probes)
        /\ probes = <<>> => failures = 0
        /\ downs = 2 =>
              /\ Len(probes) >= retry
              /\ TrailingFailures(probes) = retry
              /\ ~HasRun(Front(probes), retry)
        /\ (pc = "pingInterface" /\ downs = 1) => ~HasRun(probes, retry)

C13_Witness ==
    /\ Len(chans) = 2
    /\ downs = 2
    /\ probes = <<TRUE, FALSE, FALSE, FALSE, FALSE, FALSE>>

(* C14: in a pingInterface invocation with threshold t > 0 the count c    *)
(* satisfies 0 <= c <= t, and c < t whenever the loop is about to probe   *)
(* again.                                                                 *)
C14_CountWithinThreshold ==
    chans # <<>> =>
        /\ 0 <= failures
        /\ failures <= retry
        /\ pc = "pingInterface" => failures < retry
        /\ failures = retry => downs >= 1

C14_Witness ==
    /\ pc = "pingInterface"
    /\ retry = 5
    /\ failures = retry - 1
    /\ Len(probes) = 6

(* C15: at every moment at most one interrupt-listener goroutine is alive  *)
(* beside the main goroutine, also after pingInterface has been invoked    *)
(* a second time.                                                          *)
C15_SingleListener == Len(chans) <= 1

(* C16: without a reachable gateway reported by the default-route query    *)
(* connectToWiFi never stops polling: as long as no polling iteration has  *)
(* found a reachable gateway the main goroutine is still in the polling    *)
(* loop (or the process was ended by an interrupt).                        *)
NoGatewayYet == \A i \in 1..Len(polls) : ~polls[i].reachable

C16_PollsUntilGateway ==
    (Issued("ip route show") /\ NoGatewayYet) =>
        \/ pc = "poll"
        \/ exitCode = ExitInterrupt /\ Interrupted

CountIn(o, cmd) == Cardinality({i \in 1..Len(o) : o[i].cmd = cmd})

MonitoringPrimary == pc = "pingInterface" /\ retTo = "Run176"

(* C17: no fail-back and no repetition: nmcli is issued at most once (a    *)
(* failed join is not retried), ip route replace at most once,             *)
(* pingInterface is entered at most twice and the first invocation is      *)
(* never re-entered once left, and after the process has exited nothing    *)
(* happens any more.                                                       *)
C17_NoRepetition ==
    [][/\ CountIn(ops', "nmcli") <= 1
       /\ CountIn(ops', "ip route replace") <= 1
       /\ Len(chans') <= 2
       /\ (err # "nil" /\ pc # "exited") => (pc = "Run178" /\ pc' \in {"Run178", "exited"})
       /\ (downs >= 1 \/ pc = "exited") => ~MonitoringPrimary'
       /\ pc = "exited" => (pc' = "exited" /\ ops' = ops /\ exitCode' = exitCode)
       /\ exitCode # Running => pc = "exited"]_vars

C17_Witness ==
    /\ pc = "exited"
    /\ exitCode = ExitOK
    /\ downs = 2
    /\ CountIn(ops, "nmcli") = 1
    /\ CountIn(ops, "ip route replace") = 1

(* C18: every ip route replace is issued with a non-empty gateway that a   *)
(* polling iteration of connectToWiFi read from the default-route query    *)
(* and probed as reachable, never after a failed default-route query.      *)
C18_GatewayWasDiscovered ==
    \A i \in 1..Len(ops) :
        ops[i].cmd = "ip route replace" =>
            /\ ops[i].via # ""
            /\ polls # <<>>
            /\ ~LastPoll.queryErr
            /\ LastPoll.reachable
            /\ ops[i].via = LastPoll.route

(* C19: "Successfully changed default route" is logged only when the ip    *)
(* route replace was issued and succeeded, "Successfully connected to      *)
(* WiFi" only when connectToWiFi returned a reachable gateway.             *)
C19_SuccessReportsAreTrue ==
    /\ "Successfully changed default route" \in logs =>
          Issued("ip route replace") /\ routeErr = "nil"
    /\ "Successfully connected to WiFi" \in logs =>
          /\ router \in Gateways
          /\ polls # <<>>
          /\ LastPoll.reachable

(* C20: from the start of the first pingInterface on a listener is         *)
(* registered in every phase, and a process that received a SIGINT ends    *)
(* with status 0.                                                          *)
C20_InterruptHaltsWithZero ==
    /\ (pc # "Run" /\ exitCode = Running) => chans # <<>>
    /\ chans # <<>> => exitCode # ExitSignal
    /\ (Signalled /\ pc = "exited") => exitCode = ExitInterrupt

(* The listener alone: one is registered in every phase after the first   *)
(* pingInterface started, no SIGINT kills the process by default from     *)
(* then on, and a delivered signal leaves the listener's os.Exit(0)       *)
(* possible until the process ends.                                       *)
ListenerOutlivesMonitor ==
    /\ (pc # "Run" /\ exitCode = Running) => chans # <<>>
    /\ chans # <<>> => exitCode # ExitSignal
    /\ (Signalled /\ exitCode = Running) => ENABLED ListenerExit

====
